---- MODULE Spec2Model ----
(***************************************************************************)
(* Model of backend/server.py: a FastAPI service over a MongoDB document   *)
(* store.  State is the document store (users collection and six record    *)
(* collections), the server clock, the requests in flight and the last     *)
(* HTTP exchange (request and response).                                   *)
(*                                                                         *)
(* Time is counted in seconds.  A handler runs without interruption from   *)
(* one await to the next; at an await it gives way to other requests and   *)
(* to the clock, and the awaited store call takes effect when the handler  *)
(* is resumed.  A protected handler is therefore a first action that       *)
(* checks the token and prepares the call, and one action per awaited      *)
(* call: one for the record handlers, four for the dashboard, five for the *)
(* export.  Register and login read nothing before their first await;      *)
(* register is the action of its find_one and the action of its            *)
(* insert_one, login the action of its find_one.                           *)
(***************************************************************************)
EXTENDS Integers, Sequences, FiniteSets, TLC

VARIABLES users, regs, store, nextId, now, inflight, resp

vars == <<users, regs, store, nextId, now, inflight, resp>>

----------------------------------------------------------------------------
(* Bounds of the model *)

MaxRecords == 2
MaxNow == 1
MaxUserDocs == 2
MaxSalt == 2

(* Program constants *)

ListLimit == 1000
TokenLifetime == 2592000
OidHexLen == 24

Usernames == {"a", "b"}
Passwords == {"p", "q"}
Procs == {1, 2}
Salts == 1..MaxSalt

None == "None"

\* what an exchange holds where the request has no token, no argument, or the
\* response no content
NoToken == [shape |-> "none", sub |-> None, exp |-> 0, key |-> "-"]
NoArg == <<>>
NoBody == <<>>
ClientTs == 9

Kinds == {"seedlings_received", "delivery_notes", "dead_seedlings",
          "discarded_seedlings", "nursery_produced", "distributed_seedlings"}

Min(x, y) == IF x <= y THEN x ELSE y

----------------------------------------------------------------------------
(* Bearer tokens: jwt.encode / jwt.decode with HS256 *)

SECRET_KEY == "nursery_secret_key_change_in_production"

\* jwt.encode(to_encode, SECRET_KEY, algorithm=ALGORITHM): the claims set,
\* signed with the key.
jwt_encode(payload, key) ==
    [shape |-> "jws", sub |-> payload.sub, exp |-> payload.exp, key |-> key]

create_access_token(data, t) ==
    jwt_encode([sub |-> data.sub, exp |-> t + TokenLifetime], SECRET_KEY)

\* jwt.decode(token, SECRET_KEY, algorithms=[ALGORITHM]): the structure is
\* parsed first, then the signature is verified, then exp is validated.
jwt_decode(token, key, t) ==
    IF token.shape # "jws" THEN [exc |-> "DecodeError"]
    ELSE IF token.key # key THEN [exc |-> "InvalidSignatureError"]
    ELSE IF token.exp <= t THEN [exc |-> "ExpiredSignatureError"]
    ELSE [exc |-> "none", sub |-> token.sub, exp |-> token.exp]

\* The names the module bound by "import jwt" (PyJWT) exports as exception
\* classes.  It has no attribute JWTError.
JwtExceptionNames ==
    {"PyJWTError", "InvalidTokenError", "DecodeError", "InvalidSignatureError",
     "ExpiredSignatureError", "InvalidAudienceError", "InvalidIssuerError",
     "InvalidIssuedAtError", "ImmatureSignatureError", "InvalidKeyError",
     "InvalidAlgorithmError", "MissingRequiredClaimError"}

Unauthorized(d) == [ok |-> FALSE, username |-> None, status |-> 401, detail |-> d]
ServerError == [ok |-> FALSE, username |-> None, status |-> 500,
                detail |-> "Internal Server Error"]

\* get_current_user: what is raised inside the try block ...
RaisedInTry(token, t) ==
    LET d == jwt_decode(token, SECRET_KEY, t) IN
    IF d.exc # "none" THEN d.exc
    ELSE IF d.sub = None THEN "HTTPException"
    ELSE "none"

\* ... and how the two except clauses treat it.  The clauses are evaluated in
\* order; evaluating the expression jwt.JWTError is an attribute lookup on the
\* jwt module, which raises AttributeError when the name does not exist, and
\* that error leaves the handler as a 500.
get_current_user(token, t) ==
    LET raised == RaisedInTry(token, t) IN
    IF raised = "none"
    THEN [ok |-> TRUE, username |-> token.sub, status |-> 200, detail |-> "-"]
    ELSE IF raised = "ExpiredSignatureError" THEN Unauthorized("Token expired")
    ELSE IF "JWTError" \notin JwtExceptionNames THEN ServerError
    ELSE Unauthorized("Invalid token")

\* Tokens a client may present.  The signing key is a literal of the source, so
\* any claims set can reach the server validly signed.
SignedToken(sub, exp) == jwt_encode([sub |-> sub, exp |-> exp], SECRET_KEY)
ForgedToken(sub, exp) == jwt_encode([sub |-> sub, exp |-> exp], "other_key")
GarbageToken == [shape |-> "garbage", sub |-> None, exp |-> 0, key |-> "-"]

----------------------------------------------------------------------------
(* Store identities: bson.ObjectId and its 24-digit hexadecimal string *)

HexDigits == 0..15
NonHex == 16

RECURSIVE HexDigit(_, _)
\* the hexadecimal digit of n at position j, counted from the right, from 0
HexDigit(n, j) ==
    IF n = 0 THEN 0 ELSE IF j = 0 THEN n % 16 ELSE HexDigit(n \div 16, j - 1)

\* str(ObjectId): 24 hexadecimal digits, most significant first
ObjectIdStr(oid) == [i \in 1..OidHexLen |-> HexDigit(oid, OidHexLen - i)]

RECURSIVE HexValue(_, _)
\* the number the first n digits of s spell
HexValue(s, n) == IF n = 0 THEN 0 ELSE 16 * HexValue(s, n - 1) + s[n]

\* bson.ObjectId(id): raises InvalidId unless id is 24 hexadecimal digits
ObjectIdValid(s) == Len(s) = OidHexLen /\ \A i \in 1..Len(s) : s[i] \in HexDigits
ObjectId(s) == HexValue(s, Len(s))

----------------------------------------------------------------------------
(* Record kinds and request bodies *)

FieldsOf(k) ==
    CASE k = "seedlings_received" ->
           <<"date", "type", "supplier", "price", "lot_number", "quantity">>
      [] k = "delivery_notes" ->
           <<"date", "type", "expected_quantity", "actual_quantity">>
      [] k = "dead_seedlings" -> <<"date", "type", "quantity">>
      [] k = "discarded_seedlings" -> <<"date", "type", "quantity">>
      [] k = "nursery_produced" ->
           <<"date", "type", "quantity", "parent_plant", "propagation_method">>
      [] k = "distributed_seedlings" ->
           <<"date", "type", "quantity", "destination", "location">>

Range(s) == {s[i] : i \in DOMAIN s}

IntFields == {"quantity", "expected_quantity", "actual_quantity"}

\* d[key] = value on a dict
DictSet(d, key, value) ==
    [f \in DOMAIN d \cup {key} |-> IF f = key THEN value ELSE d[f]]

\* A JSON request body for kind k.  user_id is a required field of every
\* model; created_at is optional.
Body(k, q, uid) ==
    [f \in Range(FieldsOf(k)) \cup {"user_id"} |->
        CASE f = "user_id" -> uid
          [] f \in IntFields -> q
          [] f = "price" -> 1
          [] OTHER -> "x"]

\* The pydantic model built from the body, as a dict: created_at takes the
\* default factory datetime.utcnow only when the body has no created_at.
ModelDict(body, t) ==
    [f \in DOMAIN body \cup {"created_at"} |->
        IF f \in DOMAIN body THEN body[f] ELSE t]

----------------------------------------------------------------------------
(* The document store: collection operations *)

\* a query that forgets the owner filter
find_AnyOwner(coll, username) == coll

\* find({"user_id": username}): the matching documents in natural order
find(coll, username) == SelectSeq(coll, LAMBDA r : r["user_id"] = username)

\* .to_list(n)
to_list(s, n) == SubSeq(s, 1, Min(Len(s), n))

Perms(n) == {p \in [1..n -> 1..n] : \A i, j \in 1..n : p[i] = p[j] => i = j}

\* .sort("created_at", -1): every arrangement with created_at non-increasing;
\* the store leaves the order among equal keys open.
sort_created_at_desc(s) ==
    {[i \in 1..Len(s) |-> s[p[i]]] : p \in
        {q \in Perms(Len(s)) :
            \A i, j \in 1..Len(s) :
                i < j => s[q[i]]["created_at"] >= s[q[j]]["created_at"]}}

\* insert_one(doc): the document is appended under a fresh ObjectId
insert_one(coll, doc, oid) == Append(coll, DictSet(doc, "_id", oid))

\* a filter that forgets the owner
Matches_AnyOwner(coll, oid, username) == {i \in DOMAIN coll : coll[i]["_id"] = oid}

Matches(coll, oid, username) ==
    {i \in DOMAIN coll : coll[i]["_id"] = oid /\ coll[i]["user_id"] = username}

RemoveAt(s, i) == SubSeq(s, 1, i - 1) \o SubSeq(s, i + 1, Len(s))

\* delete_one({"_id": oid, "user_id": username}): removes the first match
delete_one(coll, oid, username) ==
    LET m == Matches(coll, oid, username) IN
    IF m = {} THEN [deleted_count |-> 0, coll |-> coll]
    ELSE [deleted_count |-> 1,
          coll |-> RemoveAt(coll, CHOOSE i \in m : \A j \in m : i <= j)]

\* s["_id"] = str(s["_id"]) on every document of a result
StrIds(s) == [i \in DOMAIN s |-> DictSet(s[i], "_id", ObjectIdStr(s[i]["_id"]))]

----------------------------------------------------------------------------
(* HTTP exchanges *)

Exchange(op, kind, token, arg, status, detail, body) ==
    [op |-> op, kind |-> kind, token |-> token, arg |-> arg,
     status |-> status, detail |-> detail, body |-> body]

\* the exchange of a protected endpoint whose dependency get_current_user failed
Rejected(op, kind, token, arg, auth) ==
    Exchange(op, kind, token, arg, auth.status, auth.detail, NoBody)

ProtectedOps == {"create", "list", "delete", "dashboard", "export"}

----------------------------------------------------------------------------
(* Requests in flight.  A request held at an await keeps the local         *)
(* variables of its handler: the username, the document to insert, the     *)
(* lists read so far.                                                      *)

Request(op, kind, token, username, arg, doc) ==
    [op |-> op, kind |-> kind, token |-> token, username |-> username,
     arg |-> arg, doc |-> doc, got |-> <<>>]

NoRequest == Request("none", "-", NoToken, "-", NoArg, NoArg)

\* the handler is held at its await
Hold(p, request) ==
    /\ inflight' = [inflight EXCEPT ![p] = request]
    /\ UNCHANGED resp

\* the handler has returned
Release(p) == inflight' = [inflight EXCEPT ![p] = NoRequest]

Held(op) == {p \in Procs : inflight[p].op = op}

----------------------------------------------------------------------------
(* Record endpoints: POST, GET and DELETE /api/{resource} *)

\* create_seedling_received and its five siblings, up to the await: the
\* dependency, the body's model with its defaults, the owner
CreateBegin(p, k, token, body) ==
    LET auth == get_current_user(token, now) IN
    /\ inflight[p].op = "none"
    /\ nextId + Cardinality(Held("create")) <= MaxRecords
    /\ UNCHANGED <<users, regs, store, nextId, now>>
    /\ IF ~auth.ok
       THEN /\ resp' = Rejected("create", k, token, body, auth)
            /\ UNCHANGED inflight
       ELSE LET seedling_dict == DictSet(ModelDict(body, now), "user_id", auth.username) IN
            Hold(p, Request("create", k, token, auth.username, body, seedling_dict))

\* insert_one takes effect; the handler answers with the document
CreateEnd(p) ==
    LET r == inflight[p] IN
    /\ r.op = "create"
    /\ store' = [store EXCEPT ![r.kind] = insert_one(@, r.doc, nextId)]
    /\ nextId' = nextId + 1
    /\ resp' = Exchange("create", r.kind, r.token, r.arg, 200, "-",
                        DictSet(r.doc, "_id", ObjectIdStr(nextId)))
    /\ Release(p)
    /\ UNCHANGED <<users, regs, now>>

\* the documents a list call may answer with
ListResults(coll, username) ==
    {StrIds(to_list(s, ListLimit)) : s \in sort_created_at_desc(find(coll, username))}

\* get_seedlings_received and its five siblings, up to the await
ListBegin(p, k, token) ==
    LET auth == get_current_user(token, now) IN
    /\ inflight[p].op = "none"
    /\ UNCHANGED <<users, regs, store, nextId, now>>
    /\ IF ~auth.ok
       THEN /\ resp' = Rejected("list", k, token, NoArg, auth)
            /\ UNCHANGED inflight
       ELSE Hold(p, Request("list", k, token, auth.username, NoArg, NoArg))

\* the query takes effect; the handler answers with its result
ListEnd(p) ==
    LET r == inflight[p] IN
    /\ r.op = "list"
    /\ \E seedlings \in ListResults(store[r.kind], r.username) :
          resp' = Exchange("list", r.kind, r.token, NoArg, 200, "-", [items |-> seedlings])
    /\ Release(p)
    /\ UNCHANGED <<users, regs, store, nextId, now>>

\* delete_seedling_received and its five siblings, up to the await: the
\* dependency, then ObjectId(id), which raises on a string that is no ObjectId
DeleteBegin(p, k, token, id) ==
    LET auth == get_current_user(token, now) IN
    /\ inflight[p].op = "none"
    /\ UNCHANGED <<users, regs, store, nextId, now>>
    /\ IF ~auth.ok
       THEN /\ resp' = Rejected("delete", k, token, [id |-> id], auth)
            /\ UNCHANGED inflight
       ELSE IF ~ObjectIdValid(id)
       THEN /\ resp' = Exchange("delete", k, token, [id |-> id],
                                500, "Internal Server Error", NoBody)
            /\ UNCHANGED inflight
       ELSE Hold(p, Request("delete", k, token, auth.username, [id |-> id], NoArg))

\* the outcome of delete_one and of the lines after it
DeleteOutcome(coll, id, username) ==
    LET result == delete_one(coll, ObjectId(id), username) IN
    IF result.deleted_count = 0
    THEN [status |-> 404, detail |-> "Item not found", coll |-> coll]
    ELSE [status |-> 200, detail |-> "Deleted successfully", coll |-> result.coll]

\* delete_one takes effect; the handler answers
DeleteEnd(p) ==
    LET r == inflight[p]
        out == DeleteOutcome(store[r.kind], r.arg.id, r.username)
    IN /\ r.op = "delete"
       /\ store' = [store EXCEPT ![r.kind] = out.coll]
       /\ resp' = Exchange("delete", r.kind, r.token, r.arg, out.status, out.detail, NoBody)
       /\ Release(p)
       /\ UNCHANGED <<users, regs, nextId, now>>

\* the server clock advances
Tick ==
    /\ now < MaxNow
    /\ now' = now + 1
    /\ UNCHANGED <<users, regs, store, nextId, inflight, resp>>

----------------------------------------------------------------------------
(* Handlers that await several queries *)

\* await db.<k>.find({"user_id": username}).to_list(1000)
Fetch(st, k, username) == to_list(find(st[k], username), ListLimit)

\* the handler up to its first await: the dependency
BeginReads(p, op, token) ==
    LET auth == get_current_user(token, now) IN
    /\ inflight[p].op = "none"
    /\ UNCHANGED <<users, regs, store, nextId, now>>
    /\ IF ~auth.ok
       THEN /\ resp' = Rejected(op, "-", token, NoArg, auth)
            /\ UNCHANGED inflight
       ELSE Hold(p, Request(op, "-", token, auth.username, NoArg, NoArg))

\* a query before the last takes effect
NextRead(p, op, kinds) ==
    /\ inflight[p].op = op
    /\ Len(inflight[p].got) + 1 < Len(kinds)
    /\ inflight' = [inflight EXCEPT
                       ![p].got = Append(@, Fetch(store, kinds[Len(@) + 1],
                                                  inflight[p].username))]
    /\ UNCHANGED <<users, regs, store, nextId, now, resp>>

----------------------------------------------------------------------------
(* Dashboard statistics: GET /api/dashboard/stats *)

\* s.get("quantity", 0)
GetQuantity(doc) == IF "quantity" \in DOMAIN doc THEN doc["quantity"] ELSE 0

RECURSIVE SumRange(_, _, _)
\* the sum over docs[lo..hi], split in halves to keep the evaluation shallow
SumRange(docs, lo, hi) ==
    IF lo > hi THEN 0
    ELSE IF lo = hi THEN GetQuantity(docs[lo])
    ELSE LET mid == (lo + hi) \div 2 IN
         SumRange(docs, lo, mid) + SumRange(docs, mid + 1, hi)

\* sum(s.get("quantity", 0) for s in docs)
SumQuantity(docs) == SumRange(docs, 1, Len(docs))

MantissaBits == 53

\* Python floats are IEEE-754 doubles: 53 significant bits, every operation
\* rounded to the nearest double, an exact tie going to the even mantissa.
\* A mantissa is held in three limbs <<low, middle, high>> of 24 bits each,
\* so that every product with 100 stays a small integer.
Limb == 4096 * 4096

RECURSIVE Pow2(_)
Pow2(k) ==
    IF k = 0 THEN 1
    ELSE LET h == Pow2(k \div 2) IN IF k % 2 = 0 THEN h * h ELSE 2 * h * h

\* the first k binary digits of r / den after the point (r < den), and what
\* is left of r
RECURSIVE DivDigits(_, _, _)
DivDigits(r, den, k) ==
    IF k = 0 \/ r = 0 THEN [q |-> 0, rem |-> r]
    ELSE LET before == DivDigits(r, den, k - 1)
             b == IF 2 * before.rem >= den THEN 1 ELSE 0
         IN [q |-> 2 * before.q + b, rem |-> 2 * before.rem - b * den]

\* the first 24 binary digits, eight at a time
LimbDigits(r, den) ==
    LET hi == DivDigits(r, den, 8)
        mid == DivDigits(hi.rem, den, 8)
        lo == DivDigits(mid.rem, den, 8)
    IN [q |-> (hi.q * 256 + mid.q) * 256 + lo.q, rem |-> lo.rem]

\* the least s with a * 2^s >= d
RECURSIVE UpShift(_, _)
UpShift(a, d) == IF a >= d THEN 0 ELSE 1 + UpShift(2 * a, d)

\* the greatest p with d * 2^p <= a, for a >= d
RECURSIVE DownShift(_, _)
DownShift(a, d) == IF a < 2 * d THEN 0 ELSE 1 + DownShift(a, 2 * d)

\* m + 1 on limbs; a mantissa that reaches 2^53 is renormalised to 2^52
LimbsInc(m, scale) ==
    LET l0 == (m[1] + 1) % Limb
        c0 == (m[1] + 1) \div Limb
        l1 == (m[2] + c0) % Limb
        c1 == (m[2] + c0) \div Limb
        l2 == m[3] + c1
    IN IF l2 = 32 THEN [m |-> <<0, 0, 16>>, scale |-> scale - 1]
       ELSE [m |-> <<l0, l1, l2>>, scale |-> scale]

\* 100 * m on limbs (the high limb takes what is left)
LimbsTimes100(m) ==
    LET p0 == 100 * m[1]
        p1 == 100 * m[2] + p0 \div Limb
        p2 == 100 * m[3] + p1 \div Limb
    IN <<p0 % Limb, p1 % Limb, p2>>

\* floor(m / 2^t) as an integer
LimbsShift(m, t) ==
    LET Part(i) ==
            LET at == 24 * (i - 1) IN
            IF at >= t THEN m[i] * Pow2(at - t)
            ELSE IF t - at >= 31 THEN 0
            ELSE m[i] \div Pow2(t - at)
    IN Part(1) + Part(2) + Part(3)

\* m mod 2^t = 0
LimbsLowZero(m, t) ==
    \A i \in 1..3 :
        LET at == 24 * (i - 1) IN
        \/ at >= t
        \/ m[i] = 0
        \/ t - at < 24 /\ m[i] % Pow2(t - at) = 0

\* a / d for integers a, d > 0: the double [m, scale] of value m / 2^scale
FloatDiv(a, d) ==
    LET s == UpShift(a, d)
        p == DownShift(a, d)
        num == a * Pow2(s)
        den == d * Pow2(p)
        c2 == DivDigits(num - den, den, 4)
        c1 == LimbDigits(c2.rem, den)
        c0 == LimbDigits(c1.rem, den)
        g == DivDigits(c0.rem, den, 1)
        m == <<c0.q, c1.q, 16 + c2.q>>
        scale == MantissaBits - 1 + s - p
    IN IF g.q = 1 /\ (g.rem # 0 \/ c0.q % 2 = 1) THEN LimbsInc(m, scale)
       ELSE [m |-> m, scale |-> scale]

\* x * 100 for a double x > 0
FloatTimes100(x) ==
    LET p == LimbsTimes100(x.m)
        drop == IF p[3] < 2048 THEN 6 ELSE 7
        cut == Pow2(drop)
        keep == Limb \div cut
        m == <<p[1] \div cut + (p[2] % cut) * keep,
               p[2] \div cut + (p[3] % cut) * keep,
               p[3] \div cut>>
        lost == p[1] % cut
        scale == x.scale - drop
    IN IF 2 * lost > cut \/ (2 * lost = cut /\ m[1] % 2 = 1) THEN LimbsInc(m, scale)
       ELSE [m |-> m, scale |-> scale]

\* round(y, 2) for a double y > 0, in hundredths: the decimal expansion of
\* the double itself, rounded to the nearest hundredth, a tie going to even
FloatRound2(y) ==
    LET q == LimbsTimes100(y.m)
        k == LimbsShift(q, y.scale)
        half == LimbsShift(q, y.scale - 1) % 2 = 1
        sticky == ~LimbsLowZero(q, y.scale - 1)
    IN IF half /\ (sticky \/ k % 2 = 1) THEN k + 1 ELSE k

\* round((n / d) * 100, 2) for d > 0, in hundredths; n and d are below 2^30
\* in magnitude and the result fits an integer
RoundRate(n, d) ==
    IF n = 0 THEN 0
    ELSE IF n < 0 THEN 0 - FloatRound2(FloatTimes100(FloatDiv(0 - n, d)))
    ELSE FloatRound2(FloatTimes100(FloatDiv(n, d)))

\* the dict the handler returns; survival_rate is held in hundredths
StatsDict(received, dead, discarded, produced) ==
    LET total_received == SumQuantity(received)
        total_dead == SumQuantity(dead)
        total_discarded == SumQuantity(discarded)
        total_produced == SumQuantity(produced)
        total_in_nursery == total_received + total_produced - total_dead - total_discarded
        total_input == total_received + total_produced
        survival_rate == IF total_input > 0 THEN RoundRate(total_in_nursery, total_input) ELSE 0
    IN [total_received |-> total_received,
        total_dead |-> total_dead,
        total_discarded |-> total_discarded,
        total_produced |-> total_produced,
        survival_rate |-> survival_rate,
        total_in_nursery |-> total_in_nursery]

\* class DashboardStats: seven fields, none with a default
DashboardStats ==
    {"total_received", "total_dead", "total_discarded", "total_produced",
     "total_distributed", "survival_rate", "total_in_nursery"}

\* response_model=...: the returned content is validated against the model; a
\* required field the content lacks fails the validation and the request
\* ends as a 500.
ResponseModel(fields, content) ==
    IF fields \subseteq DOMAIN content
    THEN [status |-> 200, detail |-> "-", body |-> [f \in fields |-> content[f]]]
    ELSE [status |-> 500, detail |-> "Internal Server Error", body |-> NoBody]

\* the four streams in the order the handler reads them
DashboardKinds ==
    <<"seedlings_received", "dead_seedlings", "discarded_seedlings", "nursery_produced">>

DashboardBegin(p, token) == BeginReads(p, "dashboard", token)

DashboardRead(p) == NextRead(p, "dashboard", DashboardKinds)

\* the last query takes effect; the totals and the response
DashboardEnd(p) ==
    LET r == inflight[p] IN
    /\ r.op = "dashboard"
    /\ Len(r.got) + 1 = Len(DashboardKinds)
    /\ LET produced == Fetch(store, DashboardKinds[Len(DashboardKinds)], r.username)
           out == ResponseModel(DashboardStats,
                                StatsDict(r.got[1], r.got[2], r.got[3], produced))
       IN resp' = Exchange("dashboard", "-", r.token, NoArg,
                           out.status, out.detail, out.body)
    /\ Release(p)
    /\ UNCHANGED <<users, regs, store, nextId, now>>

----------------------------------------------------------------------------
(* CSV export: GET /api/export/csv.  The document is held as its lines. *)

ExportKinds == <<"seedlings_received", "delivery_notes", "dead_seedlings",
                 "discarded_seedlings", "nursery_produced">>

ExportTitle(k) ==
    CASE k = "seedlings_received" -> "=== SEEDLINGS RECEIVED ==="
      [] k = "delivery_notes" -> "=== DELIVERY NOTES ==="
      [] k = "dead_seedlings" -> "=== DEAD SEEDLINGS ==="
      [] k = "discarded_seedlings" -> "=== DISCARDED SEEDLINGS ==="
      [] k = "nursery_produced" -> "=== NURSERY PRODUCED ==="

Line(kind, text, cells) == [line |-> kind, text |-> text, cells |-> cells]
BlankLine == Line("blank", "", <<>>)

\* writer.writerow({f: item.get(f) ...}) for the section's fieldnames
ExportRow(k, item) ==
    Line("row", "", [i \in DOMAIN FieldsOf(k) |-> item[FieldsOf(k)[i]]])

\* one section: the header write, then header line and rows if any document
ExportSection(k, docs, first) ==
    (IF first THEN <<BlankLine>> ELSE <<BlankLine, BlankLine>>)
    \o <<Line("header", ExportTitle(k), <<>>)>>
    \o (IF docs # <<>>
        THEN <<Line("columns", "", FieldsOf(k))>>
             \o [i \in DOMAIN docs |-> ExportRow(k, docs[i])]
        ELSE <<>>)

\* the sections of the lists read, from the j-th on
RECURSIVE ExportFrom(_, _)
ExportFrom(lists, j) ==
    IF j > Len(ExportKinds) THEN <<>>
    ELSE ExportSection(ExportKinds[j], lists[j], j = 1) \o ExportFrom(lists, j + 1)

\* output.getvalue() for the five lists received, delivery, dead, discarded,
\* produced
ExportDocument(lists) == ExportFrom(lists, 1)

ExportBegin(p, token) == BeginReads(p, "export", token)

ExportRead(p) == NextRead(p, "export", ExportKinds)

\* the last query takes effect; the document and the response
ExportEnd(p) ==
    LET r == inflight[p] IN
    /\ r.op = "export"
    /\ Len(r.got) + 1 = Len(ExportKinds)
    /\ LET produced == Fetch(store, ExportKinds[Len(ExportKinds)], r.username)
       IN resp' = Exchange("export", "-", r.token, NoArg, 200, "-",
                           [document |-> ExportDocument(Append(r.got, produced))])
    /\ Release(p)
    /\ UNCHANGED <<users, regs, store, nextId, now>>

----------------------------------------------------------------------------
(* Auth endpoints: POST /api/auth/register and /api/auth/login *)

\* pwd_context.hash: a salted one-way hash; the digest is determined by the
\* salt and the password
get_password_hash(password, salt) ==
    [scheme |-> "bcrypt", salt |-> salt, digest |-> <<salt, password>>]

\* pwd_context.verify: hashes the plain password with the salt of the hash
verify_password(plain_password, hashed_password) ==
    hashed_password.digest = <<hashed_password.salt, plain_password>>

\* find_one({"username": username}): the position of the first match in
\* natural order, 0 for None
find_one(coll, username) ==
    LET m == {i \in DOMAIN coll : coll[i].username = username} IN
    IF m = {} THEN 0 ELSE CHOOSE i \in m : \A j \in m : i <= j

TokenResponse(username, t) ==
    [access_token |-> create_access_token([sub |-> username], t),
     token_type |-> "bearer", username |-> username]

Credentials(username, password) == [username |-> username, password |-> password]

Pending == {p \in Procs : regs[p].pc = "insert"}

IdleReg == [pc |-> "idle", username |-> "-", password |-> "-", doc |-> NoArg]

\* register from the moment find_one takes effect to the second await: the
\* duplicate check, the hash, the document with its creation time
RegisterFind(p, username, password, salt) ==
    /\ regs[p].pc = "idle"
    /\ Len(users) + Cardinality(Pending) < MaxUserDocs
    /\ UNCHANGED <<users, store, nextId, now, inflight>>
    /\ IF find_one(users, username) # 0
       THEN /\ resp' = Exchange("register", "-", NoToken, Credentials(username, password),
                                400, "Username already exists", NoBody)
            /\ UNCHANGED regs
       ELSE LET user_doc == [username |-> username,
                             password |-> get_password_hash(password, salt),
                             created_at |-> now]
            IN /\ regs' = [regs EXCEPT ![p] = [pc |-> "insert", username |-> username,
                                               password |-> password, doc |-> user_doc]]
               /\ UNCHANGED resp

\* register, the rest: insert_one takes effect, then the token
RegisterInsert(p) ==
    /\ regs[p].pc = "insert"
    /\ users' = Append(users, regs[p].doc)
    /\ regs' = [regs EXCEPT ![p] = IdleReg]
    /\ resp' = Exchange("register", "-", NoToken,
                        Credentials(regs[p].username, regs[p].password),
                        200, "-", TokenResponse(regs[p].username, now))
    /\ UNCHANGED <<store, nextId, now, inflight>>

\* a login that tells an unknown username from a wrong password
LoginOutcome_Distinguish(coll, username, password, t) ==
    LET db_user == find_one(coll, username) IN
    IF db_user = 0
    THEN [status |-> 404, detail |-> "User not found", body |-> NoBody]
    ELSE IF ~verify_password(password, coll[db_user].password)
    THEN [status |-> 401, detail |-> "Invalid credentials", body |-> NoBody]
    ELSE [status |-> 200, detail |-> "-", body |-> TokenResponse(username, t)]

LoginOutcome(coll, username, password, t) ==
    LET db_user == find_one(coll, username) IN
    IF db_user = 0 \/ ~verify_password(password, coll[db_user].password)
    THEN [status |-> 401, detail |-> "Invalid credentials", body |-> NoBody]
    ELSE [status |-> 200, detail |-> "-", body |-> TokenResponse(username, t)]

\* login: find_one, the handler's only await and its first statement, takes
\* effect and the handler runs to its end
Login(username, password) ==
    LET out == LoginOutcome(users, username, password, now) IN
    /\ resp' = Exchange("login", "-", NoToken, Credentials(username, password),
                        out.status, out.detail, out.body)
    /\ UNCHANGED <<users, regs, store, nextId, now, inflight>>

----------------------------------------------------------------------------
(* Specifications *)

NoExchange == Exchange("none", "-", NoToken, NoArg, 0, "-", NoBody)

EmptyStore == [k \in Kinds |-> <<>>]

IdleRegs == [p \in Procs |-> IdleReg]

NoRequests == [p \in Procs |-> NoRequest]

Init ==
    /\ users = <<>>
    /\ regs = IdleRegs
    /\ store = EmptyStore
    /\ nextId = 1
    /\ now = 0
    /\ inflight = NoRequests
    /\ resp = NoExchange

\* tokens that get_current_user does not accept: expired, signed without a
\* subject, signed with another key, not a token at all
BadTokens(t) ==
    {SignedToken("a", t - 1), SignedToken(None, t + TokenLifetime),
     ForgedToken("a", t + TokenLifetime), GarbageToken}

OtherUser(u) == CHOOSE v \in Usernames : v # u

MalformedIds == {<<1>>, [i \in 1..OidHexLen |-> IF i = 1 THEN NonHex ELSE 0]}

\* the ids of the documents of a collection, an id that names no document,
\* and strings that are no ObjectId
DeleteIds(k) ==
    {ObjectIdStr(store[k][i]["_id"]) : i \in DOMAIN store[k]}
    \cup {ObjectIdStr(nextId)} \cup MalformedIds

\* Record endpoints called by the two owners, each on a connection of its
\* own; each body names the other user as user_id.
Conn(u) == IF u = "a" THEN 1 ELSE 2

CrudKinds == {"seedlings_received", "nursery_produced"}

NextCrud ==
    \/ \E k \in CrudKinds, u \in Usernames :
          CreateBegin(Conn(u), k, SignedToken(u, now + TokenLifetime),
                      Body(k, 1, OtherUser(u)))
    \/ \E p \in Procs : CreateEnd(p)
    \/ \E k \in CrudKinds, u \in Usernames :
          ListBegin(Conn(u), k, SignedToken(u, now + TokenLifetime))
    \/ \E p \in Procs : ListEnd(p)
    \/ \E k \in CrudKinds, u \in Usernames :
          \E id \in DeleteIds(k) :
             DeleteBegin(Conn(u), k, SignedToken(u, now + TokenLifetime), id)
    \/ \E p \in Procs : DeleteEnd(p)

Spec == Init /\ [][NextCrud]_vars

\* Creation and listing by one owner on two connections while the clock
\* runs; a body may carry created_at.
OrderKinds == {"dead_seedlings", "distributed_seedlings"}

NextOrder ==
    \/ \E p \in Procs, k \in OrderKinds :
          CreateBegin(p, k, SignedToken("a", now + TokenLifetime), Body(k, 1, "b"))
    \/ \E p \in Procs, k \in OrderKinds :
          CreateBegin(p, k, SignedToken("a", now + TokenLifetime),
                      DictSet(Body(k, 1, "b"), "created_at", ClientTs))
    \/ \E p \in Procs : CreateEnd(p)
    \/ \E p \in Procs, k \in OrderKinds :
          ListBegin(p, k, SignedToken("a", now + TokenLifetime))
    \/ \E p \in Procs : ListEnd(p)
    \/ Tick

SpecOrder == Init /\ [][NextOrder]_vars

\* Every protected endpoint called with unaccepted tokens on one connection,
\* the record endpoints also called on the other with a token that expires
\* while the request is held.
ExpiringToken == SignedToken("a", 1)

GuardTokens(p, t) == IF p = 1 THEN {ExpiringToken} ELSE BadTokens(t)

NextGuard ==
    \/ \E p \in Procs, k \in Kinds : \E token \in GuardTokens(p, now) :
          CreateBegin(p, k, token, Body(k, 1, "a"))
    \/ \E p \in Procs : CreateEnd(p)
    \/ \E p \in Procs, k \in Kinds : \E token \in GuardTokens(p, now) :
          ListBegin(p, k, token)
    \/ \E p \in Procs : ListEnd(p)
    \/ \E p \in Procs, k \in Kinds : \E token \in GuardTokens(p, now) :
          DeleteBegin(p, k, token, ObjectIdStr(1))
    \/ \E p \in Procs : DeleteEnd(p)
    \/ \E token \in BadTokens(now) : DashboardBegin(2, token)
    \/ \E token \in BadTokens(now) : ExportBegin(2, token)
    \/ Tick

SpecGuard == Init /\ [][NextGuard]_vars

\* Registration and login, with register requests in flight concurrently
\* while the clock runs.
NextAuth ==
    \/ \E p \in Procs, u \in Usernames, pw \in Passwords, salt \in Salts :
          RegisterFind(p, u, pw, salt)
    \/ \E p \in Procs : RegisterInsert(p)
    \/ \E u \in Usernames, pw \in Passwords : Login(u, pw)
    \/ Tick

SpecAuth == Init /\ [][NextAuth]_vars

\* Dashboard statistics on one connection over records of varying quantity,
\* created on the other connection before, between and after the queries of
\* a dashboard call.
Quantities == {1, 2}

NextReports ==
    \/ \E k \in Kinds, q \in Quantities :
          CreateBegin(2, k, SignedToken("a", now + TokenLifetime), Body(k, q, "a"))
    \/ CreateEnd(2)
    \/ DashboardBegin(1, SignedToken("a", now + TokenLifetime))
    \/ DashboardRead(1)
    \/ DashboardEnd(1)

SpecReports == Init /\ [][NextReports]_vars

\* Export by one owner on one connection, with records created on the other
\* connection before, between and after its queries.  The store outlives the server process: it starts with a record
\* of the other owner in the first exported stream, and either nothing else
\* or the exporting owner's documents from earlier runs, one short of the
\* query ceiling.
Exporter == "a"

PreloadedDocs ==
    [i \in 1..(ListLimit - 1) |->
        DictSet(DictSet(ModelDict(Body("dead_seedlings", 1, Exporter), 0),
                        "user_id", Exporter),
                "_id", MaxRecords + i)]

OthersStore ==
    [EmptyStore EXCEPT
        ![ExportKinds[1]] =
            <<DictSet(DictSet(ModelDict(Body(ExportKinds[1], 1, OtherUser(Exporter)), 0),
                              "user_id", OtherUser(Exporter)),
                      "_id", MaxRecords + ListLimit)>>]

InitExport ==
    /\ users = <<>>
    /\ regs = IdleRegs
    /\ store \in {OthersStore, [OthersStore EXCEPT !["dead_seedlings"] = PreloadedDocs]}
    /\ nextId = 1
    /\ now = 0
    /\ inflight = NoRequests
    /\ resp = NoExchange

NextExport ==
    \/ \E k \in Kinds :
          CreateBegin(2, k, SignedToken(Exporter, now + TokenLifetime),
                      Body(k, 1, Exporter))
    \/ CreateEnd(2)
    \/ ExportBegin(1, SignedToken(Exporter, now + TokenLifetime))
    \/ ExportRead(1)
    \/ ExportEnd(1)

SpecExport == InitExport /\ [][NextExport]_vars

----------------------------------------------------------------------------
(* Properties *)

\* the identity a protected exchange ran under
Caller(x) == x.token.sub

\* the documents of a collection that carry the owner u, in natural order
OwnedBy(coll, u) == SelectSeq(coll, LAMBDA r : r["user_id"] = u)

\* the document as a client sees it: the identity as a string
Shown(doc) == [f \in DOMAIN doc |-> IF f = "_id" THEN ObjectIdStr(doc[f]) ELSE doc[f]]

\* this step answers a call of the operation: at once, or by resuming the
\* held request
Answered(op) ==
    /\ resp'.op = op
    /\ UNCHANGED <<users, regs, now>>
    /\ \/ inflight' = inflight
       \/ \E p \in Procs : inflight[p].op = op /\ inflight'[p] = NoRequest

\* this step takes the request in and holds it at its first await
Taken(p) == inflight[p].op = "none" /\ inflight'[p].op # "none"

ListShowsOnlyOwn ==
    (Answered("list") /\ resp'.status = 200) =>
        \A i \in DOMAIN resp'.body.items :
            /\ resp'.body.items[i]["user_id"] = Caller(resp')
            /\ \E j \in DOMAIN store[resp'.kind] :
                  /\ store[resp'.kind][j]["user_id"] = Caller(resp')
                  /\ Shown(store[resp'.kind][j]) = resp'.body.items[i]

ForeignDeleteRefused ==
    \A k \in Kinds : \A i \in DOMAIN store[k] :
        (/\ Answered("delete")
         /\ resp'.kind = k
         /\ resp'.arg.id = ObjectIdStr(store[k][i]["_id"])
         /\ Caller(resp') # store[k][i]["user_id"])
        => /\ resp'.status = 404
           /\ store' = store

\* C1: a list call by an owner returns only stored records of that owner, and
\* a delete call naming the id of another owner's record answers 404 and
\* leaves the store as it was.
OwnerIsolation == [][ListShowsOnlyOwn /\ ForeignDeleteRefused]_vars

\* an owner was refused the deletion of a record of the other owner, who also
\* sees that the record is still there
OwnerIsolationWitness ==
    /\ resp.op = "delete"
    /\ resp.status = 404
    /\ \E i \in DOMAIN store[resp.kind] :
          /\ ObjectIdStr(store[resp.kind][i]["_id"]) = resp.arg.id
          /\ store[resp.kind][i]["user_id"] # Caller(resp)

\* this step answers a register call: the duplicate check refuses it, or
\* insert_one takes effect and the handler returns
RegisterAnswered ==
    /\ resp'.op = "register"
    /\ now' = now
    /\ \/ users' # users
       \/ regs' = regs /\ users' = users /\ resp' # resp

\* C2: the users collection never holds two credential records with one
\* username; an insert never adds a username that is already there, and a
\* register call answered while the username exists answers 400.
UsernameUnique ==
    [][/\ \A i, j \in DOMAIN users' :
             users'[i].username = users'[j].username => i = j
       /\ Len(users') > Len(users) =>
             \A i \in DOMAIN users : users[i].username # users'[Len(users')].username
       /\ (/\ RegisterAnswered
           /\ \E i \in DOMAIN users : users[i].username = resp'.arg.username)
          => (resp'.status = 400 /\ users' = users)]_vars

Genuine(tok) == tok.shape = "jws" /\ tok.key = SECRET_KEY

\* C3: on every protected endpoint an expired, validly signed token is
\* answered 401 "Token expired", a token of wrong signature or shape or
\* without subject is answered 401 "Invalid token", and in both cases the
\* store is unchanged; no request with such a token is taken further.
TokenVerification ==
    [][/\ \A p \in Procs :
             Taken(p) =>
                LET tok == inflight'[p].token IN
                /\ ~(Genuine(tok) /\ tok.exp < now)
                /\ ~(~Genuine(tok) \/ (tok.exp > now /\ tok.sub = None))
       /\ \A op \in ProtectedOps :
             (Answered(op) /\ inflight' = inflight) =>
                LET tok == resp'.token IN
                /\ (Genuine(tok) /\ tok.exp < now) =>
                      /\ resp'.status = 401
                      /\ resp'.detail = "Token expired"
                      /\ store' = store
                /\ (~Genuine(tok) \/ (tok.exp > now /\ tok.sub = None)) =>
                      /\ resp'.status = 401
                      /\ resp'.detail = "Invalid token"
                      /\ store' = store]_vars

\* C4: a delete call removes exactly the record with that id and that owner
\* when there is one, and for every other id answers 404 and leaves the store
\* unchanged.
DeleteByIdContract ==
    [][Answered("delete") =>
          LET k == resp'.kind
              hit == {i \in DOMAIN store[k] :
                         /\ ObjectIdStr(store[k][i]["_id"]) = resp'.arg.id
                         /\ store[k][i]["user_id"] = Caller(resp')}
          IN IF hit # {}
             THEN /\ resp'.status = 200
                  /\ \E i \in hit : store' = [store EXCEPT ![k] = RemoveAt(@, i)]
             ELSE /\ resp'.status = 404
                  /\ store' = store]_vars

RECURSIVE Total(_)
Total(docs) == IF docs = <<>> THEN 0 ELSE docs[1]["quantity"] + Total(Tail(docs))

\* 100 * n / d rounded to two decimals, in hundredths: the nearest hundredth
\* of the exact quotient, an exact tie going to the even one
Percent(n, d) ==
    LET q == (20000 * n + d) \div (2 * d)
        tie == (20000 * n + d) % (2 * d) = 0
    IN IF tie /\ q % 2 = 1 THEN q - 1 ELSE q

\* C5: the dashboard call succeeds; each total is the sum of quantity over the
\* owner's records of that kind, total_in_nursery is received + produced -
\* dead - discarded, and survival_rate (in hundredths) is 0 without input and
\* 100 * in_nursery / input rounded to two decimals otherwise.
DashboardResult ==
    resp.op = "dashboard" =>
        LET u == Caller(resp)
            r == Total(OwnedBy(store["seedlings_received"], u))
            d == Total(OwnedBy(store["dead_seedlings"], u))
            x == Total(OwnedBy(store["discarded_seedlings"], u))
            p == Total(OwnedBy(store["nursery_produced"], u))
        IN /\ resp.status = 200
           /\ resp.body["total_received"] = r
           /\ resp.body["total_dead"] = d
           /\ resp.body["total_discarded"] = x
           /\ resp.body["total_produced"] = p
           /\ resp.body["total_in_nursery"] = r + p - d - x
           /\ resp.body["survival_rate"] =
                 (IF r + p = 0 THEN 0 ELSE Percent(r + p - d - x, r + p))

\* a credential record for these credentials exists: a register call with
\* them has succeeded
Registered(coll, c) ==
    \E i \in DOMAIN coll :
        /\ coll[i].username = c.username
        /\ coll[i].password.digest = <<coll[i].password.salt, c.password>>

\* C6: a login with credentials that a register call has stored succeeds and
\* returns a token that verifies to the same username.
RegisterLoginRoundTrip ==
    (resp.op = "login" /\ Registered(users, resp.arg)) =>
        /\ resp.status = 200
        /\ get_current_user(resp.body.access_token, now).ok
        /\ get_current_user(resp.body.access_token, now).username = resp.arg.username

\* C7: a login with an unknown username and a login with a known username
\* and a password none of its records has both end as 401 "Invalid
\* credentials" without a token, and leave the users collection unchanged.
LoginFailureUniform ==
    [][(resp'.op = "login" /\ ~Registered(users, resp'.arg)) =>
          /\ resp'.status = 401
          /\ resp'.detail = "Invalid credentials"
          /\ "access_token" \notin DOMAIN resp'.body
          /\ users' = users]_vars

\* a login for a registered username with a wrong password was refused
LoginFailureWitness ==
    /\ resp.op = "login"
    /\ resp.status = 401
    /\ \E i \in DOMAIN users : users[i].username = resp.arg.username
    /\ ~Registered(users, resp.arg)

\* C8: a list answer holds only the caller's records, at most 1000 of them,
\* and a record the server created later (it got the later identity) stands
\* before every record created earlier.
ListNewestFirst ==
    (resp.op = "list" /\ resp.status = 200) =>
        /\ Len(resp.body.items) <= ListLimit
        /\ \A i \in DOMAIN resp.body.items :
              resp.body.items[i]["user_id"] = Caller(resp)
        /\ \A i, j \in DOMAIN resp.body.items :
              ObjectId(resp.body.items[i]["_id"]) > ObjectId(resp.body.items[j]["_id"])
                  => i < j

\* C9: a create call adds exactly one record, owned by the caller and stamped
\* with the server clock at the moment the call is taken, whatever the body
\* carries, and answers with that record and its identity.
CreateStampsRecord ==
    [][\A p \in Procs :
          /\ (Taken(p) /\ inflight'[p].op = "create") =>
                /\ inflight'[p].doc["user_id"] = Caller(inflight'[p])
                /\ inflight'[p].doc["created_at"] = now
          /\ (inflight[p].op = "create" /\ inflight'[p] = NoRequest) =>
                LET k == inflight[p].kind
                    doc == DictSet(inflight[p].doc, "_id", nextId)
                IN /\ store' = [store EXCEPT ![k] = Append(@, doc)]
                   /\ resp'.op = "create"
                   /\ resp'.status = 200
                   /\ resp'.token = inflight[p].token
                   /\ resp'.body = Shown(doc)]_vars

HeaderLines(doc) == {i \in DOMAIN doc : doc[i].line = "header"}

\* the position of the j-th header line
NthHeader(doc, j) ==
    CHOOSE i \in HeaderLines(doc) :
        Cardinality({h \in HeaderLines(doc) : h <= i}) = j

\* the lines after the j-th header, up to the next header or the end
SectionLines(doc, j) ==
    SubSeq(doc, NthHeader(doc, j) + 1,
           IF j < Cardinality(HeaderLines(doc)) THEN NthHeader(doc, j + 1) - 1
           ELSE Len(doc))

RowsOf(lines) == SelectSeq(lines, LAMBDA l : l.line = "row")
ColumnsOf(lines) == SelectSeq(lines, LAMBDA l : l.line = "columns")

SectionRows(doc, j) == RowsOf(SectionLines(doc, j))

\* five headers in the fixed order; a table in the non-empty sections only;
\* every row is the record at that place in the list of its section
ExportShape(doc, lists) ==
    /\ Cardinality(HeaderLines(doc)) = Len(ExportKinds)
    /\ RowsOf(SubSeq(doc, 1, NthHeader(doc, 1))) = <<>>
    /\ \A j \in DOMAIN ExportKinds :
          LET k == ExportKinds[j]
              rows == SectionRows(doc, j)
          IN /\ doc[NthHeader(doc, j)].text = ExportTitle(k)
             /\ Len(ColumnsOf(SectionLines(doc, j))) = (IF lists[j] = <<>> THEN 0 ELSE 1)
             /\ Len(rows) = Len(lists[j])
             /\ \A i \in DOMAIN rows :
                   rows[i].cells = [c \in DOMAIN FieldsOf(k) |-> lists[j][i][FieldsOf(k)[c]]]

\* C10 as stated: five headers in the fixed order; an empty section has no
\* table; a non-empty section has one row per record of the owner in that
\* stream, and nothing else appears.
ExportLayout ==
    (resp.op = "export" /\ resp.status = 200) =>
        ExportShape(resp.body.document,
                    [j \in DOMAIN ExportKinds |-> OwnedBy(store[ExportKinds[j]], Caller(resp))])

\* the first 1000 records of owner u in stream k
FirstOwned(st, k, u) ==
    SubSeq(OwnedBy(st[k], u), 1, Min(Len(OwnedBy(st[k], u)), ListLimit))

\* a query of an export call yields the first 1000 records of the caller that
\* the stream holds at that moment
ExportReadsOwn ==
    \A p \in Procs :
        (inflight'[p].op = "export" /\ Len(inflight'[p].got) > Len(inflight[p].got)) =>
            LET j == Len(inflight'[p].got) IN
            inflight'[p].got[j] = FirstOwned(store, ExportKinds[j], Caller(inflight'[p]))

\* the document of an export call lays out the lists its queries yielded
ExportPrintsReads ==
    \A p \in Procs :
        (inflight[p].op = "export" /\ inflight'[p] = NoRequest) =>
            /\ resp'.op = "export"
            /\ resp'.status = 200
            /\ ExportShape(resp'.body.document,
                           [j \in DOMAIN ExportKinds |->
                               IF j < Len(ExportKinds) THEN inflight[p].got[j]
                               ELSE FirstOwned(store, ExportKinds[j], Caller(inflight[p]))])

\* C10 amended: five headers in the fixed order; each section lays out what
\* the export read from its stream, which is the first 1000 records of the
\* owner that the stream held at the moment of that read; an empty read
\* prints no table, and nothing else appears.
ExportLayoutCapped == [][ExportReadsOwn /\ ExportPrintsReads]_vars

\* an export answered an owner with an empty and a non-empty section while
\* the other owner has a record in an exported stream, and a record the owner
\* created after the export had read that stream is not in the document
ExportLayoutWitness ==
    /\ resp.op = "export"
    /\ resp.status = 200
    /\ \E j \in DOMAIN ExportKinds : SectionRows(resp.body.document, j) = <<>>
    /\ \E j \in DOMAIN ExportKinds : SectionRows(resp.body.document, j) # <<>>
    /\ \E j \in DOMAIN ExportKinds :
          \E i \in DOMAIN store[ExportKinds[j]] :
              store[ExportKinds[j]][i]["user_id"] # Caller(resp)
    /\ \E j \in DOMAIN ExportKinds :
          Len(SectionRows(resp.body.document, j))
              < Len(FirstOwned(store, ExportKinds[j], Caller(resp)))

====
